---- MODULE Spec2Model ----
(***************************************************************************)
(* The HTTP backend of main.go: the CORS middleware, the ServeMux          *)
(* registrations, the /api/test routing closure, and the TestController    *)
(* operations over the "test project" table.                               *)
(*                                                                         *)
(* Paths are sequences of one-character strings so that HasPrefix,         *)
(* TrimPrefix and Atoi are computed as the Go code computes them.          *)
(* A handler runs in two steps: Serve (middleware, mux, dispatch, body     *)
(* decoding and validation: no shared state is touched) and Exec (the one  *)
(* SQL statement of the operation, atomic in the database, followed by     *)
(* the response).  Several handlers may be between the two steps at once.  *)
(* The backing store is taken to be available: a persistence failure       *)
(* (status 500) is an environment fault and is not modelled.               *)
(***************************************************************************)
EXTENDS Integers, Sequences, FiniteSets, Bags

VARIABLES
    rows,      \* the table: a set of records [id, name]
    seq,       \* the next value of the table's identifier sequence
    pending,   \* dispatched resource operations whose statement has not run yet
    last,      \* the request the step just taken completed, with the operation invoked
               \* and the response written (NoneCompleted after a step that completes none)
    issued,    \* history: how many times each identifier was returned by a create
    deleted,   \* history: identifiers removed by a successful delete
    fresh      \* history: id -> name submitted at creation, while not updated or deleted

vars == <<rows, seq, pending, last, issued, deleted, fresh>>

----------------------------------------------------------------------------
\* Bounds of the model

MaxId == 2
NumHandlers == 2

Ids == 1..MaxId

\* Request bodies: the decoded name; "" stands for an empty or a missing name.
Names == {"", "a", "b"}

----------------------------------------------------------------------------
\* Status codes

StatusOK == 200
StatusCreated == 201
StatusBadRequest == 400
StatusNotFound == 404
StatusMethodNotAllowed == 405

----------------------------------------------------------------------------
\* Strings

HasPrefix(s, p) == Len(s) >= Len(p) /\ SubSeq(s, 1, Len(p)) = p

TrimPrefix(s, p) == IF HasPrefix(s, p) THEN SubSeq(s, Len(p) + 1, Len(s)) ELSE s

Digits == <<"0", "1", "2", "3", "4", "5", "6", "7", "8", "9">>

IsDigit(c) == \E d \in 1..10 : Digits[d] = c

DigitVal(c) == (CHOOSE d \in 1..10 : Digits[d] = c) - 1

RECURSIVE ParseDigits(_)
ParseDigits(s) ==
    IF s = <<>> THEN 0
    ELSE 10 * ParseDigits(SubSeq(s, 1, Len(s) - 1)) + DigitVal(s[Len(s)])

\* strconv.Atoi: an optional sign, then one or more decimal digits.
Atoi(s) ==
    LET signed == s # <<>> /\ s[1] \in {"+", "-"}
        ds == IF signed THEN Tail(s) ELSE s
    IN  IF ds = <<>> \/ \E i \in 1..Len(ds) : ~IsDigit(ds[i])
        THEN [err |-> TRUE, val |-> 0]
        ELSE [err |-> FALSE,
              val |-> IF signed /\ s[1] = "-" THEN 0 - ParseDigits(ds) ELSE ParseDigits(ds)]

RECURSIVE Itoa(_)
Itoa(n) == IF n < 10 THEN <<Digits[n + 1]>> ELSE Itoa(n \div 10) \o <<Digits[(n % 10) + 1]>>

----------------------------------------------------------------------------
\* Requests and routing targets

ApiTest == <<"/", "a", "p", "i", "/", "t", "e", "s", "t">>
ApiTestSlash == ApiTest \o <<"/">>
Root == <<"/">>
Health == <<"/", "h", "e", "a", "l", "t", "h">>
Swagger == <<"/", "s", "w", "a", "g", "g", "e", "r">>
SwaggerJson == Swagger \o <<".", "j", "s", "o", "n">>

\* A routing target: a controller operation to invoke, or a direct reply.
Invoke(op, id) == [op |-> op, id |-> id, status |-> 0, msg |-> ""]

Reply(status, msg) == [op |-> "none", id |-> 0, status |-> status, msg |-> msg]

\* Mutant: the POST case is missing.
CollectionSwitch_NoPost(method) ==
    CASE method = "GET" -> Invoke("GetAll", 0)
      [] OTHER -> Reply(StatusMethodNotAllowed, "Method not allowed")

\* Mutant: the default case is missing, so nothing is written and the server
\* answers 200 with an empty body.
CollectionSwitch_NoDefault(method) ==
    CASE method = "GET" -> Invoke("GetAll", 0)
      [] method = "POST" -> Invoke("Create", 0)
      [] OTHER -> Reply(StatusOK, "")

\* The switch on r.Method of the collection path.
CollectionSwitch(method) ==
    CASE method = "GET" -> Invoke("GetAll", 0)
      [] method = "POST" -> Invoke("Create", 0)
      [] OTHER -> Reply(StatusMethodNotAllowed, "Method not allowed")

\* Mutant: GET calls GetAll, as the collection switch does.
ItemSwitch_GetAll(method, id) ==
    CASE method = "GET" -> Invoke("GetAll", 0)
      [] method = "PUT" -> Invoke("Update", id)
      [] method = "DELETE" -> Invoke("Delete", id)
      [] OTHER -> Reply(StatusMethodNotAllowed, "Method not allowed")

\* Mutant: the PUT case is missing.
ItemSwitch_NoPut(method, id) ==
    CASE method = "GET" -> Invoke("GetById", id)
      [] method = "DELETE" -> Invoke("Delete", id)
      [] OTHER -> Reply(StatusMethodNotAllowed, "Method not allowed")

\* Mutant: the DELETE case is missing.
ItemSwitch_NoDelete(method, id) ==
    CASE method = "GET" -> Invoke("GetById", id)
      [] method = "PUT" -> Invoke("Update", id)
      [] OTHER -> Reply(StatusMethodNotAllowed, "Method not allowed")

\* The switch on r.Method of the identifier path.
ItemSwitch(method, id) ==
    CASE method = "GET" -> Invoke("GetById", id)
      [] method = "PUT" -> Invoke("Update", id)
      [] method = "DELETE" -> Invoke("Delete", id)
      [] OTHER -> Reply(StatusMethodNotAllowed, "Method not allowed")

\* Mutant: the method is dispatched before the identifier is parsed.
apiTestHandler_DispatchFirst(method, path) ==
    IF path = ApiTest \/ path = ApiTestSlash
    THEN CollectionSwitch(method)
    ELSE IF HasPrefix(path, ApiTestSlash)
    THEN LET idStr == TrimPrefix(path, ApiTestSlash)
             parsed == Atoi(idStr)
         IN  IF idStr = <<>> THEN CollectionSwitch(method)
             ELSE IF method \notin {"GET", "PUT", "DELETE"}
             THEN Reply(StatusMethodNotAllowed, "Method not allowed")
             ELSE IF parsed.err THEN Reply(StatusBadRequest, "Invalid ID")
             ELSE ItemSwitch(method, parsed.val)
    ELSE Reply(StatusNotFound, "404 page not found")

\* Mutant: the trailing slash of the collection path is not normalized.
apiTestHandler_NoTrailing(method, path) ==
    IF path = ApiTest
    THEN CollectionSwitch(method)
    ELSE IF HasPrefix(path, ApiTestSlash)
    THEN LET idStr == TrimPrefix(path, ApiTestSlash)
             parsed == Atoi(idStr)
         IN  IF parsed.err THEN Reply(StatusBadRequest, "Invalid ID")
             ELSE ItemSwitch(method, parsed.val)
    ELSE Reply(StatusNotFound, "404 page not found")

apiTestHandler(method, path) ==
    IF path = ApiTest \/ path = ApiTestSlash
    THEN CollectionSwitch(method)
    ELSE IF HasPrefix(path, ApiTestSlash)
    THEN LET idStr == TrimPrefix(path, ApiTestSlash)
             parsed == Atoi(idStr)
         IN  IF idStr = <<>> THEN CollectionSwitch(method)
             ELSE IF parsed.err THEN Reply(StatusBadRequest, "Invalid ID")
             ELSE ItemSwitch(method, parsed.val)
    ELSE Reply(StatusNotFound, "404 page not found")

\* The handler registered for "/".
rootHandler(path) ==
    IF path # Root THEN Reply(StatusNotFound, "404 page not found")
    ELSE Reply(StatusOK, "Backend API is running")

\* http.ServeMux over the registered patterns: a pattern without a trailing
\* slash matches its path only, one with a trailing slash matches the subtree,
\* and the longest matching pattern wins.
mux(method, path) ==
    IF path = ApiTest \/ HasPrefix(path, ApiTestSlash) THEN apiTestHandler(method, path)
    ELSE IF path = Health THEN Reply(StatusOK, "healthy")
    ELSE IF path = Swagger THEN Reply(StatusOK, "Swagger UI")
    ELSE IF path = SwaggerJson THEN Reply(StatusOK, "openapi")
    ELSE rootHandler(path)

\* Mutant: the headers are set but an OPTIONS request is passed on.
corsMiddleware_PassThrough(method, path) == mux(method, path)

corsMiddleware(method, path) ==
    IF method = "OPTIONS" THEN Reply(StatusOK, "") ELSE mux(method, path)

----------------------------------------------------------------------------
\* The TestController over the table (one SQL statement per operation)

Response(status, kind, id, name, list, msg) ==
    [status |-> status, kind |-> kind, id |-> id, name |-> name, list |-> list, msg |-> msg]

ErrorResponse(status, msg) == Response(status, "error", 0, "", {}, msg)

Result(resp, rs, sq) == [resp |-> resp, rows |-> rs, seq |-> sq]

\* SELECT of all rows.
GetAll(rs, sq) == Result(Response(StatusOK, "list", 0, "", rs, ""), rs, sq)

\* SELECT by identifier; no row is the not-found signal.
GetById(rs, sq, id) ==
    IF \E r \in rs : r.id = id
    THEN LET r == CHOOSE r \in rs : r.id = id
         IN  Result(Response(StatusOK, "project", r.id, r.name, {}, ""), rs, sq)
    ELSE Result(ErrorResponse(StatusNotFound, "Project not found"), rs, sq)

\* The presence check of the required name, made before any statement runs.
NameMissing(name) == name = ""

\* Mutant: the identifier is the number of rows plus one, not a sequence value.
Create_CountRows(rs, sq, name) ==
    Result(Response(StatusCreated, "project", Cardinality(rs) + 1, name, {}, ""),
           rs \cup {[id |-> Cardinality(rs) + 1, name |-> name]}, sq + 1)

\* INSERT of the name, RETURNING the identifier the sequence generates.
Create(rs, sq, name) ==
    Result(Response(StatusCreated, "project", sq, name, {}, ""),
           rs \cup {[id |-> sq, name |-> name]}, sq + 1)

\* UPDATE of the name WHERE the identifier matches; no row affected is not-found.
Update(rs, sq, id, name) ==
    IF \E r \in rs : r.id = id
    THEN Result(Response(StatusOK, "project", id, name, {}, ""),
                {IF r.id = id THEN [r EXCEPT !.name = name] ELSE r : r \in rs}, sq)
    ELSE Result(ErrorResponse(StatusNotFound, "Project not found"), rs, sq)

\* DELETE WHERE the identifier matches; no row affected is not-found.
Delete(rs, sq, id) ==
    IF \E r \in rs : r.id = id
    THEN Result(Response(StatusOK, "none", 0, "", {}, "Deleted successfully"),
                {r \in rs : r.id # id}, sq)
    ELSE Result(ErrorResponse(StatusNotFound, "Project not found"), rs, sq)

\* The statement of operation op, run on table rs with sequence sq.
Statement(op, id, name, rs, sq) ==
    CASE op = "GetAll" -> GetAll(rs, sq)
      [] op = "GetById" -> GetById(rs, sq, id)
      [] op = "Create" -> Create(rs, sq, name)
      [] op = "Update" -> Update(rs, sq, id, name)
      [] op = "Delete" -> Delete(rs, sq, id)

----------------------------------------------------------------------------
\* Inputs

Request(method, path, name) == [method |-> method, path |-> path, name |-> name]

IdPath(i) == ApiTestSlash \o Itoa(i)

Methods == {"GET", "POST", "PUT", "DELETE", "OPTIONS", "PATCH"}

\* Segments that strconv.Atoi rejects.
BadSegments == {<<"x">>, <<"1", "x">>, <<"-">>, <<"1", "/", "2">>}

BadIdPaths == {ApiTestSlash \o g : g \in BadSegments}

CollectionPaths == {ApiTest, ApiTestSlash}

ItemPaths == {IdPath(i) : i \in Ids} \cup {ApiTestSlash \o <<"+", "1">>}

OtherPaths == {Root, Health, <<"/", "a", "p", "i">>, ApiTest \o <<"x">>}

Paths == CollectionPaths \cup ItemPaths \cup BadIdPaths \cup OtherPaths

\* Only POST and PUT bodies are decoded.
BodyNames(method) == IF method \in {"POST", "PUT"} THEN Names ELSE {""}

Requests == {Request(m, p, n) : m \in Methods, p \in Paths, n \in Names}

ValidRequests == {r \in Requests : r.name \in BodyNames(r.method)}

\* The create, read, update and delete requests of the API, in the form the
\* API documents them.
CrudRequests ==
    {r \in ValidRequests :
        \/ r.path = ApiTest /\ r.method \in {"GET", "POST"}
        \/ r.path \in {IdPath(i) : i \in Ids} /\ r.method \in {"GET", "PUT", "DELETE"}}

----------------------------------------------------------------------------
\* State machine

NoRequest == Request("", <<>>, "")

Completed(req, call, resp) == [req |-> req, call |-> call, resp |-> resp]

NoneCompleted == Completed(NoRequest, "none", ErrorResponse(0, ""))

Init ==
    /\ rows = {}
    /\ seq = 1
    /\ pending = EmptyBag
    /\ last = NoneCompleted
    /\ issued = <<>>
    /\ deleted = {}
    /\ fresh = {}

PendingCreates == BagCardinality([c \in {d \in DOMAIN pending : d.op = "Create"} |-> pending[c]])

\* The middleware, the mux and the routing closure answer the request
\* themselves, or the controller rejects the body: no statement runs.
Answer(req) ==
    \E t \in {corsMiddleware(req.method, req.path)} :
        /\ t.op = "none" \/ (t.op = "Create" /\ NameMissing(req.name))
        /\ last' = IF t.op = "none"
                   THEN Completed(req, "none", ErrorResponse(t.status, t.msg))
                   ELSE Completed(req, t.op, ErrorResponse(StatusBadRequest, "Name is required"))
        /\ UNCHANGED <<rows, seq, pending, issued, deleted, fresh>>

\* The request is dispatched to a controller operation, whose statement is
\* about to run.
Dispatch(req) ==
    \E t \in {corsMiddleware(req.method, req.path)} :
        /\ t.op # "none"
        /\ ~(t.op = "Create" /\ NameMissing(req.name))
        /\ BagCardinality(pending) < NumHandlers
        /\ t.op = "Create" => seq + PendingCreates <= MaxId
        /\ pending' = pending (+) SetToBag({[req |-> req, op |-> t.op, id |-> t.id]})
        /\ last' = NoneCompleted
        /\ UNCHANGED <<rows, seq, issued, deleted, fresh>>

\* The statement of a dispatched operation runs and the response is written.
Exec(c) ==
    \E res \in {Statement(c.op, c.id, c.req.name, rows, seq)} :
    \E ok \in {res.resp.status \in {StatusOK, StatusCreated}} :
        /\ BagIn(c, pending)
        /\ pending' = pending (-) SetToBag({c})
        /\ rows' = res.rows
        /\ seq' = res.seq
        /\ last' = Completed(c.req, c.op, res.resp)
        /\ issued' = IF c.op = "Create" /\ ok THEN Append(issued, res.resp.id) ELSE issued
        /\ deleted' = IF c.op = "Delete" /\ ok THEN deleted \cup {c.id} ELSE deleted
        /\ fresh' = CASE c.op = "Create" /\ ok ->
                            fresh \cup {[id |-> res.resp.id, name |-> c.req.name]}
                      [] c.op \in {"Update", "Delete"} /\ ok ->
                            {f \in fresh : f.id # c.id}
                      [] OTHER -> fresh

Next ==
    \/ \E req \in CrudRequests : Answer(req)
    \/ \E req \in CrudRequests : Dispatch(req)
    \/ \E c \in DOMAIN pending : Exec(c)

Spec == Init /\ [][Next]_vars

\* One request at a time, over every method and path.
NextRouter ==
    \/ \E req \in ValidRequests : pending = EmptyBag /\ Answer(req)
    \/ \E req \in ValidRequests : pending = EmptyBag /\ Dispatch(req)
    \/ \E c \in DOMAIN pending : Exec(c)

SpecRouter == Init /\ [][NextRouter]_vars

----------------------------------------------------------------------------
\* Properties

Stored(rs, i) == \E r \in rs : r.id = i

IsCreateRequest(req) == req.method = "POST" /\ req.path \in CollectionPaths

\* C1: a create with a non-empty name answers 201 with an identifier that no
\* earlier create returned and stores the submitted name under it; a
\* get-by-id of an identifier created and not updated or deleted since
\* answers 200 with that identifier and the name submitted at creation.
CreateThenGet ==
    /\ (IsCreateRequest(last.req) /\ last.req.name # "") =>
          /\ last.resp.status = StatusCreated
          /\ last.resp.name = last.req.name
          /\ issued # <<>>
          /\ last.resp.id = issued[Len(issued)]
          /\ \A k \in 1..(Len(issued) - 1) : issued[k] # last.resp.id
          /\ [id |-> last.resp.id, name |-> last.req.name] \in rows
    /\ last.req.method = "GET" =>
          \A f \in fresh :
              last.req.path = IdPath(f.id) =>
                  /\ last.resp.status = StatusOK
                  /\ last.resp.id = f.id
                  /\ last.resp.name = f.name

\* The second record created is read back while a request is still in flight.
CreateThenGetWitness ==
    /\ last.req = Request("GET", IdPath(2), "")
    /\ last.resp.status = StatusOK
    /\ last.resp.name = "b"
    /\ [id |-> 2, name |-> "b"] \in fresh
    /\ pending # EmptyBag

\* C2: a create whose name is empty or missing answers 400 and leaves the
\* stored records as they were.
EmptyNameRejected ==
    [][(IsCreateRequest(last'.req) /\ last'.req.name = "") =>
          /\ last'.resp.status = StatusBadRequest
          /\ rows' = rows]_vars

EmptyNameRejectedWitness ==
    /\ IsCreateRequest(last.req)
    /\ last.req.name = ""
    /\ last.resp.status = StatusBadRequest
    /\ Cardinality(rows) = 2

\* C3: an update of an identifier that is not stored answers 404 and changes
\* nothing; an update of a stored identifier answers 200, gives that record
\* the submitted name under the same identifier and leaves the others alone.
UpdateEffect ==
    [][last'.req.method = "PUT" =>
          \A i \in Ids :
              last'.req.path = IdPath(i) =>
                  IF Stored(rows, i)
                  THEN /\ last'.resp.status = StatusOK
                       /\ rows' = {r \in rows : r.id # i}
                                      \cup {[id |-> i, name |-> last'.req.name]}
                  ELSE /\ last'.resp.status = StatusNotFound
                       /\ rows' = rows]_vars

\* Record 1 was renamed from "a" to "b" while record 2 is stored.
UpdateEffectWitness ==
    /\ last.req = Request("PUT", IdPath(1), "b")
    /\ last.resp.status = StatusOK
    /\ [id |-> 1, name |-> "b"] \in rows
    /\ Stored(rows, 2)
    /\ \E f \in fresh : f.id = 2

\* C4: a delete of a stored identifier answers 200 and removes that record
\* only; a delete of an identifier that is not stored answers 404 and
\* removes nothing; a get-by-id of an identifier deleted earlier answers 404.
DeleteThenNotFound ==
    [][last'.req.method \in {"DELETE", "GET"} =>
          \A i \in Ids :
              /\ (last'.req.method = "DELETE" /\ last'.req.path = IdPath(i)) =>
                    IF Stored(rows, i)
                    THEN /\ last'.resp.status = StatusOK
                         /\ rows' = {r \in rows : r.id # i}
                         /\ i \in deleted'
                    ELSE /\ last'.resp.status = StatusNotFound
                         /\ rows' = rows
              /\ (last'.req.method = "GET" /\ last'.req.path = IdPath(i) /\ i \in deleted) =>
                    last'.resp.status = StatusNotFound]_vars

\* Record 1 was deleted, another record was created since, and a get of 1
\* answers 404.
DeleteThenNotFoundWitness ==
    /\ last.req = Request("GET", IdPath(1), "")
    /\ last.resp.status = StatusNotFound
    /\ 1 \in deleted
    /\ Len(issued) = 2
    /\ Stored(rows, 2)

\* C5: every stored record has a non-empty name.
NamesNonEmpty == \A r \in rows : r.name # ""

\* C6: no two stored records share an identifier, and no two creates
\* returned the same identifier.
UniqueIds ==
    /\ \A r1 \in rows : \A r2 \in rows : r1.id = r2.id => r1 = r2
    /\ \A j \in 1..Len(issued) : \A k \in 1..Len(issued) : j # k => issued[j] # issued[k]

\* A create completed while another create was in flight.
UniqueIdsWitness ==
    /\ last.call = "Create"
    /\ last.resp.status = StatusCreated
    /\ \E c \in DOMAIN pending : c.op = "Create"

\* The methods the API recognizes on a matched path.
Recognized(path) ==
    IF path \in CollectionPaths THEN {"GET", "POST"} ELSE {"GET", "PUT", "DELETE"}

Matched(path) == path \in CollectionPaths \cup ItemPaths

\* C7 as stated: on a matched path every method that is not recognized for
\* it answers 405 and invokes no resource operation.
MethodNotAllowedAll ==
    (Matched(last.req.path) /\ last.req.method \notin Recognized(last.req.path)) =>
        /\ last.resp.status = StatusMethodNotAllowed
        /\ last.call = "none"

\* C7 as amended: on a matched path every method other than OPTIONS that is
\* not recognized for it answers 405 and invokes no resource operation.
MethodNotAllowed ==
    (/\ Matched(last.req.path)
     /\ last.req.method \notin Recognized(last.req.path)
     /\ last.req.method # "OPTIONS") =>
        /\ last.resp.status = StatusMethodNotAllowed
        /\ last.resp.msg = "Method not allowed"
        /\ last.call = "none"

MethodNotAllowedWitness ==
    /\ last.req.method = "PATCH"
    /\ last.req.path = ApiTestSlash
    /\ last.resp.status = StatusMethodNotAllowed
    /\ rows # {}

\* C8: a request on /api/test/{segment} whose segment is no integer answers
\* 400 for GET, POST, PUT and DELETE, invokes no resource operation and
\* leaves the store unchanged.
InvalidIdRejected ==
    [][(last'.req.path \in BadIdPaths /\ last'.req.method \in {"GET", "POST", "PUT", "DELETE"}) =>
          /\ last'.resp.status = StatusBadRequest
          /\ last'.resp.msg = "Invalid ID"
          /\ last'.call = "none"
          /\ rows' = rows
          /\ seq' = seq]_vars

InvalidIdRejectedWitness ==
    /\ last.req.path \in BadIdPaths
    /\ last.req.method = "POST"
    /\ last.req.name = "a"
    /\ last.resp.status = StatusBadRequest
    /\ rows # {}

\* The request handled to completion on table rs with sequence sq.
Outcome(req, rs, sq) ==
    LET t == corsMiddleware(req.method, req.path)
    IN  IF t.op = "none"
        THEN [call |-> "none", resp |-> ErrorResponse(t.status, t.msg), rows |-> rs, seq |-> sq]
        ELSE IF t.op = "Create" /\ NameMissing(req.name)
        THEN [call |-> t.op, resp |-> ErrorResponse(StatusBadRequest, "Name is required"),
              rows |-> rs, seq |-> sq]
        ELSE LET res == Statement(t.op, t.id, req.name, rs, sq)
             IN  [call |-> t.op, resp |-> res.resp, rows |-> res.rows, seq |-> res.seq]

OptionsAnswered ==
    [][last'.req.method = "OPTIONS" =>
          /\ last'.resp.status = StatusOK
          /\ last'.call = "none"
          /\ pending' = pending
          /\ rows' = rows
          /\ seq' = seq]_vars

\* OPTIONS answered 200 on a path the router answers with 400.
OptionsAnsweredWitness ==
    /\ last.req.method = "OPTIONS"
    /\ last.req.path \in BadIdPaths
    /\ last.resp.status = StatusOK
    /\ rows # {}

====
